---- MODULE Spec2Model ----
(***************************************************************************)
(* Model of the moderation bot in src/bot.py: the on_message automod       *)
(* pipeline (handle_violation, log_incident), the command logger           *)
(* (log_command), the help and echo slash commands, and the two-step       *)
(* femboy-hooters restaurant wizard with its per-user session flag.        *)
(*                                                                         *)
(* Every awaited remote call is one step.  A remote call ends in one of    *)
(* three ways: "ok", "http" (it raised discord.HTTPException or a subclass) *)
(* or "other" (it raised another Exception, e.g. the connection error the  *)
(* HTTP layer re-raises when the platform cannot be reached).              *)
(***************************************************************************)
EXTENDS Integers, Sequences, FiniteSets, TLC

VARIABLES
    LOG_CHANNEL_ID,     \* bot.py:23, None or the channel id
    handler,            \* which handler the current task runs
    pc,                 \* position of the current task
    msg,                \* the discord.Message given to on_message
    inter,              \* the Interaction given to a slash command
    actions_taken,      \* handle_violation's dict (bot.py:147-151)
    calls,              \* remote calls issued by the current task, in order
    exc,                \* exception that escaped the handler, or "none"
    incidents,          \* the actions dicts passed to log_incident by the task
    delivery,           \* how the reporter ended: none/suppressed/sent/failed
    processed,          \* times bot.process_commands ran in the task
    responded,          \* interaction.response.is_done()
    cmdlog,             \* the log_command calls made by the task
    timeoutRecords,     \* history: <<what happened to timeout, what was recorded>>
    active_restaurants, \* bot.active_restaurants (bot.py:43), as the set of keys
    rtask,              \* per user: the restaurant() command task
    view1,              \* per user: RestaurantViewStep1 of the current session
    view2,              \* per user: RestaurantViewStep2 of the current session
    waiter_image,       \* per user: View1.waiter_image is set (not None)
    cb                  \* per user: the running component callback task

vars == <<LOG_CHANNEL_ID, handler, pc, msg, inter, actions_taken, calls, exc,
          incidents, delivery, processed, responded, cmdlog, timeoutRecords,
          active_restaurants, rtask, view1, view2, waiter_image, cb>>

pipelineVars == <<handler, pc, msg, inter, actions_taken, calls, exc,
                  incidents, delivery, processed, responded, cmdlog,
                  timeoutRecords>>

restaurantVars == <<active_restaurants, rtask, view1, view2, waiter_image, cb>>

----------------------------------------------------------------------------
(* Bounds and input domains *)

MaxLen == 2

None == "None"
SinkId == "log-channel"

\* How an awaited remote call can end.
Outcomes == {"ok", "http", "other"}

\* Message text over a small alphabet: "/" is the slash character, "N" a
\* substring the first pattern matches, "R" a substring the second pattern
\* matches, "x" any other text.
Chars == {"/", "N", "R", "x"}

Contents == UNION {[1..n -> Chars] : n \in 0..MaxLen}

Messages == [content : Contents,
             author_bot : BOOLEAN,
             guild : BOOLEAN,
             me_moderate_members : BOOLEAN,
             author_administrator : BOOLEAN]

Interactions == [manage_messages : BOOLEAN]

NoMsg == [content |-> <<>>, author_bot |-> FALSE, guild |-> FALSE,
          me_moderate_members |-> FALSE, author_administrator |-> FALSE]

NoInter == [manage_messages |-> FALSE]

\* The users who run wizard sessions, and the users who can press the
\* buttons of a session's views.  Sessions of different users share nothing
\* but the dict, under different keys; a second user matters as the one who
\* presses the buttons of a session that is not theirs.
Users == {"u1"}
Actors == Users \cup {"u2"}

\* A task of the restaurant wizard: its position, whether its interaction
\* has been responded to, the messages it delivered, the log_command calls
\* it made, whether one of its remote calls raised, and the exception that
\* escaped it.
NoTask == [pc |-> "idle", responded |-> FALSE, sent |-> <<>>, log |-> <<>>,
           failed |-> FALSE, exc |-> "none"]

----------------------------------------------------------------------------
(* Pure helpers *)

regex_patterns == <<"N", "R">>

search(pattern, text) == \E i \in 1..Len(text) : text[i] = pattern

has_forbidden_content(text) ==
    \E p \in 1..Len(regex_patterns) : search(regex_patterns[p], text)

startswith_slash(text) == Len(text) > 0 /\ text[1] = "/"

NoActions == [message_deleted |-> FALSE, user_notified |-> FALSE,
              user_timed_out |-> FALSE]

Call(name, o) == [call |-> name, result |-> o]

Issued(name) == \E i \in 1..Len(calls) : calls[i].call = name

Succeeded(name) ==
    \E i \in 1..Len(calls) : calls[i].call = name /\ calls[i].result = "ok"

\* except discord.HTTPException (bot.py:160, 167, 183)
handle_violation_catches(o) == o = "http"

\* A reporter that catches what handle_violation catches.
log_incident_catches_http_only(o) == o = "http"

\* except Exception (bot.py:234)
log_incident_catches(o) == o \in {"http", "other"}

\* except Exception (bot.py:138)
log_command_catches(o) == o \in {"http", "other"}

\* A reporter without the sink check.
no_sink_unchecked(id) == FALSE

\* if not LOG_CHANNEL_ID: return (bot.py:100, 192)
no_sink(id) == id = None

\* value="✅" if success else "❌" (bot.py:223)
render(success) == IF success THEN "ok_mark" ELSE "fail_mark"

\* The guard without the administrator exemption.
timeout_eligible_admins_too(m) == m.guild /\ m.me_moderate_members

\* the condition guarding message.author.timeout (bot.py:172-174)
timeout_eligible(m) ==
    m.guild /\ m.me_moderate_members /\ ~m.author_administrator

----------------------------------------------------------------------------
Init ==
    /\ LOG_CHANNEL_ID \in {None, SinkId}
    /\ handler = "none"
    /\ pc = "idle"
    /\ msg = NoMsg
    /\ inter = NoInter
    /\ actions_taken = NoActions
    /\ calls = <<>>
    /\ exc = "none"
    /\ incidents = <<>>
    /\ delivery = "none"
    /\ processed = 0
    /\ responded = FALSE
    /\ cmdlog = <<>>
    /\ timeoutRecords = {}
    /\ active_restaurants = {}
    /\ rtask = [u \in Users |-> NoTask]
    /\ view1 = [u \in Users |-> "none"]
    /\ view2 = [u \in Users |-> "none"]
    /\ waiter_image = [u \in Users |-> FALSE]
    /\ cb = [u \in Users |-> NoTask]

\* A fresh task: everything task-local is reset when the dispatcher starts
\* the next handler.
Fresh(h, p, m, i) ==
    /\ handler' = h
    /\ pc' = p
    /\ msg' = m
    /\ inter' = i
    /\ actions_taken' = NoActions
    /\ calls' = <<>>
    /\ exc' = "none"
    /\ incidents' = <<>>
    /\ delivery' = "none"
    /\ processed' = 0
    /\ responded' = FALSE
    /\ cmdlog' = <<>>

\* An exception leaves the handler: the task ends.
Escape(o) == pc' = "done" /\ exc' = o

\* The event loop drops the finished task and is ready for the next event.
task_finished ==
    /\ pc = "done"
    /\ Fresh("none", "idle", NoMsg, NoInter)
    /\ UNCHANGED <<LOG_CHANNEL_ID, timeoutRecords, restaurantVars>>

----------------------------------------------------------------------------
(* on_message and AutoModerator.handle_violation *)

\* The task's variables that a reporter step leaves alone.
keepTask == <<handler, msg, inter, actions_taken, processed, responded>>

on_message(m) ==
    /\ pc = "idle"
    /\ IF m.author_bot
         THEN Fresh("on_message", "done", m, NoInter)
         ELSE IF startswith_slash(m.content)
           THEN Fresh("on_message", "done", m, NoInter)
           ELSE IF has_forbidden_content(m.content)
             THEN Fresh("on_message", "notify", m, NoInter)
             ELSE Fresh("on_message", "process_commands", m, NoInter)
    /\ UNCHANGED <<LOG_CHANNEL_ID, timeoutRecords, restaurantVars>>

\* The blocks in another order: the timeout before the delete.
handle_violation_next_timeout_first(step) ==
    CASE step = "notify" -> "timeout"
      [] step = "timeout" -> "delete"
      [] step = "delete" -> "log_incident"

\* The step handle_violation takes after `step`, whether the step's remote
\* call succeeded or raised discord.HTTPException.
handle_violation_next(step) ==
    CASE step = "notify" -> "delete"
      [] step = "delete" -> "timeout"
      [] step = "timeout" -> "log_incident"

\* One try/except block of handle_violation around the remote call `name`,
\* which sets actions_taken[flag] when the call succeeds.
Attempt(step, name, flag, o) ==
    /\ calls' = Append(calls, Call(name, o))
    /\ IF o = "ok"
         THEN /\ actions_taken' = [actions_taken EXCEPT ![flag] = TRUE]
              /\ pc' = handle_violation_next(step)
              /\ exc' = exc
         ELSE /\ actions_taken' = actions_taken
              /\ IF handle_violation_catches(o)
                   THEN pc' = handle_violation_next(step) /\ exc' = exc
                   ELSE Escape(o)
    /\ UNCHANGED <<LOG_CHANNEL_ID, handler, msg, inter, incidents, delivery,
                   processed, responded, cmdlog, timeoutRecords,
                   restaurantVars>>

handle_violation_notify(o) ==
    /\ pc = "notify"
    /\ Attempt("notify", "reply", "user_notified", o)

handle_violation_delete(o) ==
    /\ pc = "delete"
    /\ Attempt("delete", "delete", "message_deleted", o)

handle_violation_timeout(o) ==
    /\ pc = "timeout"
    /\ IF timeout_eligible(msg)
         THEN Attempt("timeout", "timeout", "user_timed_out", o)
         ELSE /\ pc' = handle_violation_next("timeout")
              /\ UNCHANGED <<LOG_CHANNEL_ID, handler, msg, inter,
                             actions_taken, calls, exc, incidents, delivery,
                             processed, responded, cmdlog, timeoutRecords,
                             restaurantVars>>

----------------------------------------------------------------------------
(* AutoModerator.log_incident *)

\* What happened to the timeout action in the current run.
TimeoutStatus ==
    IF ~Issued("timeout") THEN "not_attempted"
    ELSE IF Succeeded("timeout") THEN "succeeded" ELSE "failed"

log_incident ==
    /\ pc = "log_incident"
    /\ incidents' = Append(incidents, actions_taken)
    /\ IF no_sink(LOG_CHANNEL_ID)
         THEN delivery' = "suppressed" /\ pc' = "process_commands"
         ELSE delivery' = delivery /\ pc' = "li_fetch"
    /\ UNCHANGED <<LOG_CHANNEL_ID, keepTask, calls, exc, cmdlog,
                   timeoutRecords, restaurantVars>>

\* await bot.fetch_channel(LOG_CHANNEL_ID); on success the embed is built,
\* one field per entry of the actions dict.
log_incident_fetch(o) ==
    /\ pc = "li_fetch"
    /\ calls' = Append(calls, Call("fetch_channel", o))
    /\ IF o = "ok"
         THEN /\ pc' = "li_send"
              /\ delivery' = delivery
              /\ exc' = exc
              /\ timeoutRecords' = timeoutRecords \cup
                   {<<TimeoutStatus,
                      render(incidents[Len(incidents)].user_timed_out)>>}
         ELSE /\ timeoutRecords' = timeoutRecords
              /\ IF log_incident_catches(o)
                   THEN /\ delivery' = "failed"
                        /\ pc' = "process_commands"
                        /\ exc' = exc
                   ELSE delivery' = delivery /\ Escape(o)
    /\ UNCHANGED <<LOG_CHANNEL_ID, keepTask, incidents, cmdlog,
                   restaurantVars>>

log_incident_send(o) ==
    /\ pc = "li_send"
    /\ calls' = Append(calls, Call("log_send", o))
    /\ IF o = "ok"
         THEN delivery' = "sent" /\ pc' = "process_commands" /\ exc' = exc
         ELSE IF log_incident_catches(o)
           THEN delivery' = "failed" /\ pc' = "process_commands" /\ exc' = exc
           ELSE delivery' = delivery /\ Escape(o)
    /\ UNCHANGED <<LOG_CHANNEL_ID, keepTask, incidents, cmdlog,
                   timeoutRecords, restaurantVars>>

process_commands ==
    /\ pc = "process_commands"
    /\ processed' = processed + 1
    /\ pc' = "done"
    /\ UNCHANGED <<LOG_CHANNEL_ID, handler, msg, inter, actions_taken, calls,
                   exc, incidents, delivery, responded, cmdlog,
                   timeoutRecords, restaurantVars>>

----------------------------------------------------------------------------
(* CommandLogger.log_command *)

LogEntry(name, success, error) ==
    [command |-> name, success |-> success, error |-> error]

\* The call of log_command and its first statement, the sink check.  Every
\* call of log_command is the last statement of its path, so the handler is
\* done when log_command returns.
log_command(entry) ==
    /\ cmdlog' = Append(cmdlog, entry)
    /\ IF no_sink(LOG_CHANNEL_ID)
         THEN delivery' = "suppressed" /\ pc' = "done"
         ELSE delivery' = delivery /\ pc' = "lc_fetch"
    /\ exc' = exc

log_command_fetch(o) ==
    /\ pc = "lc_fetch"
    /\ calls' = Append(calls, Call("fetch_channel", o))
    /\ IF o = "ok"
         THEN pc' = "lc_send" /\ delivery' = delivery /\ exc' = exc
         ELSE IF log_command_catches(o)
           THEN delivery' = "failed" /\ pc' = "done" /\ exc' = exc
           ELSE delivery' = delivery /\ Escape(o)
    /\ UNCHANGED <<LOG_CHANNEL_ID, keepTask, incidents, cmdlog,
                   timeoutRecords, restaurantVars>>

log_command_send(o) ==
    /\ pc = "lc_send"
    /\ calls' = Append(calls, Call("log_send", o))
    /\ IF o = "ok"
         THEN delivery' = "sent" /\ pc' = "done" /\ exc' = exc
         ELSE IF log_command_catches(o)
           THEN delivery' = "failed" /\ pc' = "done" /\ exc' = exc
           ELSE delivery' = delivery /\ Escape(o)
    /\ UNCHANGED <<LOG_CHANNEL_ID, keepTask, incidents, cmdlog,
                   timeoutRecords, restaurantVars>>

----------------------------------------------------------------------------
(* help_command *)

help_command(i) ==
    /\ pc = "idle"
    /\ Fresh("help", "help_respond", NoMsg, i)
    /\ UNCHANGED <<LOG_CHANNEL_ID, timeoutRecords, restaurantVars>>

\* try: send the help embed, log success; except Exception: log failure.
help_respond(o) ==
    /\ pc = "help_respond"
    /\ calls' = Append(calls, Call("respond_help", o))
    /\ IF o = "ok"
         THEN responded' = TRUE /\ log_command(LogEntry("help", TRUE, "none"))
         ELSE responded' = responded
              /\ log_command(LogEntry("help", FALSE, o))
    /\ UNCHANGED <<LOG_CHANNEL_ID, handler, msg, inter, actions_taken,
                   incidents, processed, timeoutRecords, restaurantVars>>

----------------------------------------------------------------------------
(* echo_command *)

echo_command(i) ==
    /\ pc = "idle"
    /\ IF ~i.manage_messages
         THEN Fresh("echo", "echo_deny", NoMsg, i)
         ELSE Fresh("echo", "echo_respond", NoMsg, i)
    /\ UNCHANGED <<LOG_CHANNEL_ID, timeoutRecords, restaurantVars>>

echoKeep == <<LOG_CHANNEL_ID, handler, msg, inter, actions_taken, incidents,
              processed, timeoutRecords, restaurantVars>>

\* The permission-denied branch: it is not inside any try block.
echo_deny(o) ==
    /\ pc = "echo_deny"
    /\ calls' = Append(calls, Call("respond_denied", o))
    /\ IF o = "ok"
         THEN /\ responded' = TRUE
              /\ log_command(LogEntry("echo", FALSE, "Insufficient permissions"))
         ELSE /\ responded' = responded
              /\ Escape(o)
              /\ UNCHANGED <<cmdlog, delivery>>
    /\ UNCHANGED echoKeep

\* except discord.HTTPException (bot.py:561)
echo_command_catches(o) == o = "http"

echo_respond(o) ==
    /\ pc = "echo_respond"
    /\ calls' = Append(calls, Call("respond_sent", o))
    /\ IF o = "ok"
         THEN responded' = TRUE /\ pc' = "echo_send" /\ exc' = exc
         ELSE /\ responded' = responded
              /\ IF echo_command_catches(o)
                   THEN pc' = "echo_failed" /\ exc' = exc
                   ELSE Escape(o)
    /\ UNCHANGED <<cmdlog, delivery>>
    /\ UNCHANGED echoKeep

echo_send(o) ==
    /\ pc = "echo_send"
    /\ calls' = Append(calls, Call("target_send", o))
    /\ responded' = responded
    /\ IF o = "ok"
         THEN log_command(LogEntry("echo", TRUE, "none"))
         ELSE /\ UNCHANGED <<cmdlog, delivery>>
              /\ IF echo_command_catches(o)
                   THEN pc' = "echo_failed" /\ exc' = exc
                   ELSE Escape(o)
    /\ UNCHANGED echoKeep

\* The except block: it answers through the response or the followup and
\* then logs; its own remote call is not protected.
echo_failed(o) ==
    /\ pc = "echo_failed"
    /\ calls' = Append(calls,
           Call(IF responded THEN "followup_failed" ELSE "respond_failed", o))
    /\ IF o = "ok"
         THEN /\ responded' = TRUE
              /\ log_command(LogEntry("echo", FALSE, "Failed to send message"))
         ELSE /\ responded' = responded
              /\ Escape(o)
              /\ UNCHANGED <<cmdlog, delivery>>
    /\ UNCHANGED echoKeep

----------------------------------------------------------------------------
(* The femboy-hooters wizard: restaurant(), RestaurantViewStep1,           *)
(* RestaurantViewStep2 and RestaurantDropdown.                             *)
(*                                                                         *)
(* A view is "created" when constructed, "live" once the message carrying  *)
(* it was sent or edited in, "replaced"/"removed" when its message was     *)
(* edited to another view or to none, and "timedout" after its timeout.    *)
(* A RestaurantViewStep2 that is still live when its user starts a new     *)
(* session is "stale": it belongs to an earlier session.                   *)

\* `import asyncio` is not among the module's imports (bot.py:1-12), so
\* evaluating asyncio.sleep (bot.py:388) raises NameError.
asyncio_imported == FALSE

restaurantKeep == <<LOG_CHANNEL_ID, pipelineVars>>

Running(t) == t.pc \notin {"idle", "done"}

StartTask(p) == [NoTask EXCEPT !.pc = p]

Deliver(t, what) == [t EXCEPT !.responded = TRUE, !.sent = Append(@, what)]

\* An exception leaves the wizard task t.
TaskEscape(t, o) == [t EXCEPT !.pc = "done", !.failed = TRUE, !.exc = o]

\* A remote call of the wizard task t raised, an except clause caught it,
\* and the task goes on at position p.
Raised(t, p) == [t EXCEPT !.pc = p, !.failed = TRUE]

\* The call of log_command by a wizard task and its sink check.
task_log_command(t, entry) ==
    [t EXCEPT !.log = Append(@, entry),
              !.pc = IF no_sink(LOG_CHANNEL_ID) THEN "done" ELSE "lc_fetch"]

\* restaurant(): the session check and, for a new session, the flag and the
\* first view (bot.py:586-606).  `image` is whether get_random_waiter found
\* an image file.
restaurant(u, image) ==
    /\ ~Running(rtask[u])
    /\ IF u \in active_restaurants
         THEN /\ rtask' = [rtask EXCEPT ![u] = StartTask("reject")]
              /\ UNCHANGED <<active_restaurants, view1, view2, waiter_image>>
         ELSE /\ active_restaurants' = active_restaurants \cup {u}
              /\ view1' = [view1 EXCEPT ![u] = "created"]
              /\ view2' = [view2 EXCEPT ![u] =
                     IF @ \in {"live", "stale"} THEN "stale" ELSE "none"]
              /\ waiter_image' = [waiter_image EXCEPT ![u] = image]
              /\ rtask' = [rtask EXCEPT ![u] =
                     StartTask(IF image THEN "send_file" ELSE "send")]
    /\ UNCHANGED <<cb, restaurantKeep>>

\* The "Active Session" response and its log entry (bot.py:595-599); the
\* branch is outside the try block.
restaurant_reject(u, o) ==
    /\ rtask[u].pc = "reject"
    /\ rtask' = [rtask EXCEPT ![u] =
           IF o = "ok"
             THEN task_log_command(Deliver(@, "active_session"),
                      LogEntry("femboy-hooters", FALSE, "Active session exists"))
             ELSE TaskEscape(@, o)]
    /\ UNCHANGED <<active_restaurants, view1, view2, waiter_image, cb,
                   restaurantKeep>>

\* The welcome message went out with the view: the view is live and the
\* command is logged as a success (bot.py:619-639).
Welcomed(u) ==
    /\ view1' = [view1 EXCEPT ![u] = "live"]
    /\ rtask' = [rtask EXCEPT ![u] =
           task_log_command(Deliver(@, "welcome"),
               LogEntry("femboy-hooters", TRUE, "none"))]
    /\ UNCHANGED active_restaurants

\* The send with the image attached (bot.py:616-623); any Exception leads
\* to the plain send of bot.py:626-630.
restaurant_send_file(u, o) ==
    /\ rtask[u].pc = "send_file"
    /\ IF o = "ok"
         THEN Welcomed(u)
         ELSE /\ rtask' = [rtask EXCEPT ![u] = Raised(@, "send")]
              /\ UNCHANGED <<active_restaurants, view1>>
    /\ UNCHANGED <<view2, waiter_image, cb, restaurantKeep>>

\* The send without an image (bot.py:626-635); any Exception reaches the
\* outer except, which drops the flag before it answers (bot.py:641-644).
restaurant_send(u, o) ==
    /\ rtask[u].pc = "send"
    /\ IF o = "ok"
         THEN Welcomed(u)
         ELSE /\ active_restaurants' = active_restaurants \ {u}
              /\ rtask' = [rtask EXCEPT ![u] = Raised(@, "failed")]
              /\ view1' = [view1 EXCEPT ![u] = "none"]
    /\ UNCHANGED <<view2, waiter_image, cb, restaurantKeep>>

\* The except block's answer through the response or the followup and its
\* log entry (bot.py:646-659); its remote call is not protected.
restaurant_failed(u, o) ==
    /\ rtask[u].pc = "failed"
    /\ rtask' = [rtask EXCEPT ![u] =
           IF o = "ok"
             THEN task_log_command(Deliver(@, "unavailable"),
                      LogEntry("femboy-hooters", FALSE, "exception"))
             ELSE TaskEscape(@, o)]
    /\ UNCHANGED <<active_restaurants, view1, view2, waiter_image, cb,
                   restaurantKeep>>

\* log_command inside a wizard task: fetch the channel, then send; every
\* Exception is caught (bot.py:103-139).
restaurant_log(u, o) ==
    /\ rtask[u].pc \in {"lc_fetch", "lc_send"}
    /\ rtask' = [rtask EXCEPT ![u] =
           IF o = "ok"
             THEN [@ EXCEPT !.pc = IF @ = "lc_fetch" THEN "lc_send" ELSE "done"]
             ELSE IF log_command_catches(o)
               THEN Raised(@, "done")
               ELSE TaskEscape(@, o)]
    /\ UNCHANGED <<active_restaurants, view1, view2, waiter_image, cb,
                   restaurantKeep>>

\* RestaurantViewStep1 defines no on_timeout: the default does nothing.
RestaurantViewStep1_on_timeout(u) ==
    /\ view1[u] = "live"
    /\ ~Running(cb[u])
    /\ view1' = [view1 EXCEPT ![u] = "timedout"]
    /\ UNCHANGED <<active_restaurants, rtask, view2, waiter_image, cb,
                   restaurantKeep>>

\* RestaurantViewStep2.on_timeout (bot.py:338-345)
RestaurantViewStep2_on_timeout(u) ==
    /\ view2[u] \in {"live", "stale"}
    /\ ~Running(cb[u])
    /\ view2' = [view2 EXCEPT ![u] = "timedout"]
    /\ active_restaurants' = active_restaurants \ {u}
    /\ UNCHANGED <<rtask, view1, waiter_image, cb, restaurantKeep>>

\* The "Get Seated" button (bot.py:244-248) pressed by `actor`; the owner
\* enters next_step, which constructs the second view and edits the message.
get_seated(u, actor) ==
    /\ view1[u] = "live"
    /\ ~Running(cb[u])
    /\ cb' = [cb EXCEPT ![u] =
           StartTask(IF actor # u THEN "not_yours" ELSE "seat_edit")]
    /\ UNCHANGED <<active_restaurants, rtask, view1, view2, waiter_image,
                   restaurantKeep>>

\* The "Request Different Waiter" button (bot.py:250-275).
request_different_waiter(u, actor, image) ==
    /\ view1[u] = "live"
    /\ ~Running(cb[u])
    /\ IF actor # u
         THEN /\ cb' = [cb EXCEPT ![u] = StartTask("not_yours")]
              /\ UNCHANGED waiter_image
         ELSE /\ waiter_image' = [waiter_image EXCEPT ![u] = image]
              /\ cb' = [cb EXCEPT ![u] =
                     StartTask(IF image THEN "waiter_edit_file"
                               ELSE "waiter_edit")]
    /\ UNCHANGED <<active_restaurants, rtask, view1, view2, restaurantKeep>>

\* RestaurantDropdown.callback entered by `actor` (bot.py:372-377).
RestaurantDropdown_callback(u, actor) ==
    /\ view2[u] \in {"live", "stale"}
    /\ ~Running(cb[u])
    /\ cb' = [cb EXCEPT ![u] =
           StartTask(IF actor # u THEN "not_yours" ELSE "drop_prep")]
    /\ UNCHANGED <<active_restaurants, rtask, view1, view2, waiter_image,
                   restaurantKeep>>

\* "This isn't your session!" (bot.py:247, 253, 374)
not_your_session(u, o) ==
    /\ cb[u].pc = "not_yours"
    /\ cb' = [cb EXCEPT ![u] =
           IF o = "ok" THEN [Deliver(@, "not_yours") EXCEPT !.pc = "done"]
           ELSE TaskEscape(@, o)]
    /\ UNCHANGED <<active_restaurants, rtask, view1, view2, waiter_image,
                   restaurantKeep>>

\* request_different_waiter's edits: with the image, then (on any
\* Exception) without it; the edit without the image is not protected.
waiter_edit(u, o) ==
    /\ cb[u].pc \in {"waiter_edit_file", "waiter_edit"}
    /\ cb' = [cb EXCEPT ![u] =
           IF o = "ok" THEN [Deliver(@, "welcome") EXCEPT !.pc = "done"]
           ELSE IF @.pc = "waiter_edit_file" THEN Raised(@, "waiter_edit")
           ELSE TaskEscape(@, o)]
    /\ UNCHANGED <<active_restaurants, rtask, view1, view2, waiter_image,
                   restaurantKeep>>

\* next_step (bot.py:277-330): the edit that shows the menu, and on any
\* Exception the edit that shows the error, after which the flag is dropped;
\* an Exception of that second edit is caught and the flag is kept.
next_step(u, o) ==
    /\ cb[u].pc \in {"seat_edit", "seat_error"}
    /\ IF cb[u].pc = "seat_edit"
         THEN IF o = "ok"
                THEN /\ cb' = [cb EXCEPT ![u] =
                           [Deliver(@, "menu") EXCEPT !.pc = "done"]]
                     /\ view1' = [view1 EXCEPT ![u] = "replaced"]
                     /\ view2' = [view2 EXCEPT ![u] = "live"]
                     /\ UNCHANGED active_restaurants
                ELSE /\ cb' = [cb EXCEPT ![u] = Raised(@, "seat_error")]
                     /\ UNCHANGED <<active_restaurants, view1, view2>>
         ELSE IF o = "ok"
                THEN /\ cb' = [cb EXCEPT ![u] =
                           [Deliver(@, "service_error") EXCEPT !.pc = "done"]]
                     /\ view1' = [view1 EXCEPT ![u] = "removed"]
                     /\ active_restaurants' = active_restaurants \ {u}
                     /\ UNCHANGED view2
                ELSE /\ cb' = [cb EXCEPT ![u] = Raised(@, "done")]
                     /\ UNCHANGED <<active_restaurants, view1, view2>>
    /\ UNCHANGED <<rtask, waiter_image, restaurantKeep>>

\* The position after the preparation message was sent: asyncio.sleep.
after_preparation ==
    IF asyncio_imported THEN "drop_serve" ELSE "drop_error"

\* The owner's path through RestaurantDropdown.callback (bot.py:376-416):
\* the preparation message, the sleep, the served message and the flag's
\* removal; on any Exception the apology and the flag's removal; an
\* Exception of the apology is caught and the flag is kept.
dropdown_step(u, o) ==
    /\ cb[u].pc \in {"drop_prep", "drop_serve", "drop_error"}
    /\ IF cb[u].pc = "drop_prep"
         THEN /\ cb' = [cb EXCEPT ![u] =
                    IF o = "ok"
                      THEN [Deliver(@, "preparing") EXCEPT
                               !.pc = after_preparation]
                      ELSE Raised(@, "drop_error")]
              /\ UNCHANGED active_restaurants
         ELSE IF cb[u].pc = "drop_serve"
           THEN IF o = "ok"
                  THEN /\ cb' = [cb EXCEPT ![u] =
                             [Deliver(@, "enjoy") EXCEPT !.pc = "done"]]
                       /\ active_restaurants' = active_restaurants \ {u}
                  ELSE /\ cb' = [cb EXCEPT ![u] = Raised(@, "drop_error")]
                       /\ UNCHANGED active_restaurants
           ELSE IF o = "ok"
                  THEN /\ cb' = [cb EXCEPT ![u] =
                             [Deliver(@, "issue") EXCEPT !.pc = "done"]]
                       /\ active_restaurants' = active_restaurants \ {u}
                  ELSE /\ cb' = [cb EXCEPT ![u] = Raised(@, "done")]
                       /\ UNCHANGED active_restaurants
    /\ UNCHANGED <<rtask, view1, view2, waiter_image, restaurantKeep>>

NextRestaurant ==
    \/ \E u \in Users, image \in BOOLEAN : restaurant(u, image)
    \/ \E u \in Users, o \in Outcomes : restaurant_reject(u, o)
    \/ \E u \in Users, o \in Outcomes : restaurant_send_file(u, o)
    \/ \E u \in Users, o \in Outcomes : restaurant_send(u, o)
    \/ \E u \in Users, o \in Outcomes : restaurant_failed(u, o)
    \/ \E u \in Users, o \in Outcomes : restaurant_log(u, o)
    \/ \E u \in Users : RestaurantViewStep1_on_timeout(u)
    \/ \E u \in Users : RestaurantViewStep2_on_timeout(u)
    \/ \E u \in Users, actor \in Actors : get_seated(u, actor)
    \/ \E u \in Users, actor \in Actors, image \in BOOLEAN :
           request_different_waiter(u, actor, image)
    \/ \E u \in Users, actor \in Actors : RestaurantDropdown_callback(u, actor)
    \/ \E u \in Users, o \in Outcomes : not_your_session(u, o)
    \/ \E u \in Users, o \in Outcomes : waiter_edit(u, o)
    \/ \E u \in Users, o \in Outcomes : next_step(u, o)
    \/ \E u \in Users, o \in Outcomes : dropdown_step(u, o)

SpecRestaurant == Init /\ [][NextRestaurant]_vars

----------------------------------------------------------------------------
Next ==
    \/ \E m \in Messages : on_message(m)
    \/ \E o \in Outcomes : handle_violation_notify(o)
    \/ \E o \in Outcomes : handle_violation_delete(o)
    \/ \E o \in Outcomes : handle_violation_timeout(o)
    \/ log_incident
    \/ \E o \in Outcomes : log_incident_fetch(o)
    \/ \E o \in Outcomes : log_incident_send(o)
    \/ process_commands
    \/ \E i \in Interactions : help_command(i)
    \/ \E o \in Outcomes : help_respond(o)
    \/ \E i \in Interactions : echo_command(i)
    \/ \E o \in Outcomes : echo_deny(o)
    \/ \E o \in Outcomes : echo_respond(o)
    \/ \E o \in Outcomes : echo_send(o)
    \/ \E o \in Outcomes : echo_failed(o)
    \/ \E o \in Outcomes : log_command_fetch(o)
    \/ \E o \in Outcomes : log_command_send(o)
    \/ task_finished

Spec == Init /\ [][Next]_vars

----------------------------------------------------------------------------
(* Properties of the moderation pipeline and the commands (Spec) *)

Moderated(m) ==
    ~m.author_bot /\ ~startswith_slash(m.content)
    /\ has_forbidden_content(m.content)

RunEnded == handler = "on_message" /\ pc = "done" /\ Issued("reply")

ActionKinds == {"message_deleted", "user_notified", "user_timed_out"}

\* C1: every message that on_message hands to remediation (human author, no
\* leading slash, text matching a pattern) has, when its handler ends,
\* exactly one call of the incident reporter, whatever the remote calls did.
C1_ExactlyOneIncident ==
    (handler = "on_message" /\ pc = "done" /\ Moderated(msg))
        => Len(incidents) = 1

\* C2: in a remediation run that ended, Delete was attempted after Notify
\* however Notify ended, and the Timeout step was evaluated however Notify
\* and Delete ended (the timeout call was issued, or the run went on to the
\* incident report).
C2_EachActionAttempted ==
    RunEnded => /\ Issued("delete")
                /\ (Issued("timeout") \/ Len(incidents) > 0)

\* C3: a remediation run never raises to its caller and ends with one
\* outcome per action kind; when every remote call of the run failed, all
\* three outcomes are failed.
C3_NeverRaisesThreeOutcomes ==
    RunEnded =>
        /\ exc = "none"
        /\ Len(incidents) = 1
        /\ DOMAIN incidents[1] = ActionKinds
        /\ ((\A i \in 1..Len(calls) : calls[i].result # "ok")
              => \A k \in ActionKinds : ~incidents[1][k])

\* C4: the timeout call is issued only in a guild where the bot holds
\* moderate_members and only for an author who is not an administrator.
C4_TimeoutOnlyWhenEligible ==
    Issued("timeout") =>
        /\ msg.guild
        /\ msg.me_moderate_members
        /\ ~msg.author_administrator

C4_Witness ==
    /\ handler = "on_message"
    /\ Moderated(msg)
    /\ msg.guild /\ msg.me_moderate_members /\ msg.author_administrator
    /\ Len(incidents) = 1
    /\ ~Issued("timeout")

\* C5: what an incident records for a timeout that was not attempted differs
\* from what an incident records for a timeout that was attempted and failed.
C5_NotAttemptedDistinctFromFailed ==
    \A r1, r2 \in timeoutRecords :
        (r1[1] = "not_attempted" /\ r2[1] = "failed") => r1[2] # r2[2]

Rank(name) ==
    CASE name = "reply" -> 1
      [] name = "delete" -> 2
      [] name = "timeout" -> 3
      [] OTHER -> 4

FlagOf(name) ==
    CASE name = "reply" -> "user_notified"
      [] name = "delete" -> "message_deleted"
      [] name = "timeout" -> "user_timed_out"

ModerationCalls == {"reply", "delete", "timeout"}

InOrderOnce ==
    handler = "on_message" =>
        \A i, j \in 1..Len(calls) :
            (i < j /\ calls[i].call \in ModerationCalls)
                => Rank(calls[i].call) < Rank(calls[j].call)

OutcomeKept ==
    (pc # "idle" /\ pc' # "idle") =>
        \A name \in ModerationCalls :
            Issued(name) => actions_taken'[FlagOf(name)]
                               = actions_taken[FlagOf(name)]

\* C6: within a run the remote attempts come in the order Notify, Delete,
\* Timeout, none of them twice, and the outcome of an action that was
\* attempted never changes afterwards.
C6_FixedOrderNoRetry == []InOrderOnce /\ [][OutcomeKept]_vars

C6_Witness ==
    /\ Len(calls) >= 3
    /\ calls[1] = Call("reply", "http")
    /\ calls[2] = Call("delete", "http")
    /\ calls[3].call = "timeout"

ReporterCalled == Len(incidents) > 0 \/ Len(cmdlog) > 0

\* C7: with no log channel configured the reporter issues no channel fetch
\* and no send, and a reporter that was called ends suppressed.
C7_NoSinkNoNetworkCall ==
    LOG_CHANNEL_ID = None =>
        /\ ~Issued("fetch_channel")
        /\ ~Issued("log_send")
        /\ (ReporterCalled => delivery = "suppressed")

C7_Witness ==
    /\ LOG_CHANNEL_ID = None
    /\ Len(incidents) = 1
    /\ delivery = "suppressed"
    /\ pc = "done"

ReporterPcs == {"li_fetch", "li_send", "lc_fetch", "lc_send"}

\* Where the caller goes on after the reporter returned.
AfterReporter == IF pc \in {"li_fetch", "li_send"} THEN "process_commands"
                 ELSE "done"

ReporterCallFails ==
    /\ pc \in ReporterPcs
    /\ Len(calls') = Len(calls) + 1
    /\ calls'[Len(calls')].result # "ok"

FailureSwallowed ==
    ReporterCallFails =>
        /\ delivery' = "failed"
        /\ exc' = "none"
        /\ pc' = AfterReporter
        /\ UNCHANGED <<keepTask, incidents, cmdlog>>

FailedDeliveryCompletes ==
    (pc = "done" /\ delivery = "failed") =>
        /\ exc = "none"
        /\ (handler = "on_message" => processed = 1)

\* C8: a failing fetch or send of the reporter ends it as failed, raises
\* nothing, and the calling handler goes on from the same place and with the
\* same state as after a delivery, and completes.
C8_DeliveryFailureSwallowed ==
    []FailedDeliveryCompletes /\ [][FailureSwallowed]_vars

C8_Witness ==
    /\ handler = "on_message"
    /\ pc = "done"
    /\ delivery = "failed"
    /\ processed = 1
    /\ calls[Len(calls)] = Call("log_send", "other")

\* C9: an echo by an actor without manage_messages ends with the denial
\* response issued, nothing sent to the target channel, and one log entry:
\* failed, "Insufficient permissions".
C9_EchoDeniedAndLogged ==
    (handler = "echo" /\ pc = "done" /\ ~inter.manage_messages) =>
        /\ Issued("respond_denied")
        /\ ~Issued("target_send")
        /\ cmdlog = <<LogEntry("echo", FALSE, "Insufficient permissions")>>

\* A remote call of the handler itself (not of the reporter) raised.
HandlerCallFailed ==
    \E i \in 1..Len(calls) :
        /\ calls[i].call \notin {"fetch_channel", "log_send"}
        /\ calls[i].result # "ok"

\* C11: a help or echo handler that ended let no exception escape, and when
\* one of its own remote calls raised, it logged the command as failed.
C11_CommandErrorsCaught ==
    (handler \in {"help", "echo"} /\ pc = "done") =>
        /\ exc = "none"
        /\ (HandlerCallFailed =>
              \E i \in 1..Len(cmdlog) : ~cmdlog[i].success)

\* C13: when on_message has ended, remediation was started exactly for a
\* message of a human author, without leading slash, whose text matches; a
\* bot's or slash message caused no call, no incident and no command
\* processing; every other message had process_commands run once.
C13_RemediationGate ==
    (handler = "on_message" /\ pc = "done") =>
        /\ (Issued("reply") <=> Moderated(msg))
        /\ ((msg.author_bot \/ startswith_slash(msg.content)) =>
              (calls = <<>> /\ incidents = <<>> /\ processed = 0))
        /\ ((~msg.author_bot /\ ~startswith_slash(msg.content)) =>
              processed = 1)

----------------------------------------------------------------------------
(* Properties of the wizard (SpecRestaurant) *)

\* Nothing of the user's session is left that could still act: no task of
\* the wizard runs and no view of the user is waiting for input or timeout.
SessionOver(u) ==
    /\ ~Running(rtask[u])
    /\ ~Running(cb[u])
    /\ view1[u] \notin {"created", "live"}
    /\ view2[u] \notin {"live", "stale"}

\* C10: whatever ended a user's session (completion, a view's timeout at
\* either step, an error), the user's entry is gone from active_restaurants
\* once the session is over.
C10_FlagRemovedWhenSessionOver ==
    \A u \in Users : SessionOver(u) => u \notin active_restaurants

\* The user's current session is at its first step: its RestaurantViewStep1
\* was constructed and no completion, timeout or error has ended it.
AtStepOne(u) == view1[u] \in {"created", "live"}

\* C12: while a user's session is in progress the user's flag stays set (so
\* restaurant() rejects every further invocation and builds no second view);
\* no event of an earlier session of the user clears it.
C12_FlagHeldWhileSessionRuns ==
    \A u \in Users : AtStepOne(u) => u \in active_restaurants

\* The callback task of u is a finished run of the owner through
\* RestaurantDropdown.callback in which no remote call raised.
DishServedRun(u) ==
    /\ cb[u].pc = "done"
    /\ ~cb[u].failed
    /\ Len(cb[u].sent) > 0
    /\ cb[u].sent[1] = "preparing"

\* C14: when the owner selects a dish and every remote call succeeds, the
\* callback delivers the preparation message and then "Enjoy your meal"
\* (after which it drops the flag); the apology of the error branch is
\* delivered only in a run in which a remote call raised.
C14_ServedWhenCallsSucceed ==
    \A u \in Users :
        /\ DishServedRun(u) => cb[u].sent = <<"preparing", "enjoy">>
        /\ (\E i \in 1..Len(cb[u].sent) : cb[u].sent[i] = "issue")
              => cb[u].failed
====
